---- MODULE Spec2Model ----
(***************************************************************************)
(* Model of scripts/update_apps_tags.py: the tag resolver get_latest_tag   *)
(* and the manifest builder main.                                          *)
(*                                                                         *)
(* A Python str is a sequence of one-character strings.  An Optional value *)
(* is a sequence of length at most one: None is << >> and a present value  *)
(* x is <<x>>.  A packaging Version is its release tuple <<major, minor,   *)
(* patch>>.  Repository URLs are never inspected by the program and are    *)
(* kept as opaque strings.                                                 *)
(***************************************************************************)
EXTENDS Integers, Sequences, FiniteSets, TLC

VARIABLES
    remote,      \* repo_url -> output of `git ls-remote --tags repo_url`
    file,        \* Optional content of apps.json
    pc,          \* position of the process: idle, loop, query, done, aborted
    env,         \* value of FRAPPE_VERSION seen by the current run
    major,       \* main's local `major` (Optional int)
    idx,         \* position of the for loop in REPOS
    apps,        \* main's local list `apps`
    runs,        \* number of runs started so far
    fileBefore,  \* history: content of apps.json when the current run started
    log,         \* history: remote queries and writes of the current run
    written,     \* history: <<major, file before, file after>> of every write
    refsIn,      \* resolver check: the ls-remote output handed to the resolver
    majorIn,     \* resolver check: the major filter handed to the resolver
    result,      \* resolver check: what get_latest_tag returned
    called       \* resolver check: whether get_latest_tag has run

vars == <<remote, file, pc, env, major, idx, apps, runs, fileBefore, log,
          written, refsIn, majorIn, result, called>>

mainVars == <<remote, file, pc, env, major, idx, apps, runs, fileBefore, log,
              written>>

tagVars == <<refsIn, majorIn, result, called>>

----------------------------------------------------------------------------
(* Optional values and strings *)

None == << >>

Some(x) == <<x>>

MAIN == <<"m", "a", "i", "n">>

REFS_TAGS == <<"r", "e", "f", "s", "/", "t", "a", "g", "s", "/">>

DEREF == <<"^", "{", "}">>

DigitChar == <<"0", "1", "2", "3", "4", "5", "6", "7", "8", "9">>

AsciiDigits == {DigitChar[k] : k \in 1..10}

\* A decimal digit outside ASCII (ARABIC-INDIC DIGIT THREE): \d matches it
\* and int() reads it as 3, packaging's [0-9] does not accept it.
ArabicThree == "U+0663"

IsReDigit(c) == c \in AsciiDigits \cup {ArabicThree}

DigitValue(c) ==
    IF c = ArabicThree THEN 3 ELSE (CHOOSE k \in 1..10 : DigitChar[k] = c) - 1

RECURSIVE ParseInt(_)
ParseInt(s) ==
    IF s = << >> THEN 0
    ELSE 10 * ParseInt(SubSeq(s, 1, Len(s) - 1)) + DigitValue(s[Len(s)])

RECURSIVE IntToStr(_)
IntToStr(n) ==
    IF n < 10 THEN <<DigitChar[n + 1]>>
    ELSE IntToStr(n \div 10) \o <<DigitChar[(n % 10) + 1]>>

StartsWith(s, p) == Len(s) >= Len(p) /\ SubSeq(s, 1, Len(p)) = p

EndsWith(s, p) ==
    Len(s) >= Len(p) /\ SubSeq(s, Len(s) - Len(p) + 1, Len(s)) = p

RECURSIVE Replace(_, _)
Replace(s, old) ==
    IF s = << >> THEN s
    ELSE IF StartsWith(s, old)
         THEN Replace(SubSeq(s, Len(old) + 1, Len(s)), old)
         ELSE <<Head(s)>> \o Replace(Tail(s), old)

RECURSIVE LStrip(_, _)
LStrip(s, c) ==
    IF s # << >> /\ Head(s) = c THEN LStrip(Tail(s), c) ELSE s

\* Index just past the longest run of \d characters of s that starts at p.
RECURSIVE DigitRunEnd(_, _)
DigitRunEnd(s, p) ==
    IF p <= Len(s) /\ IsReDigit(s[p]) THEN DigitRunEnd(s, p + 1) ELSE p

RECURSIVE SplitOn(_, _)
SplitOn(s, c) ==
    IF \A k \in 1..Len(s) : s[k] # c THEN <<s>>
    ELSE LET k == CHOOSE j \in 1..Len(s) :
                      s[j] = c /\ \A h \in 1..(j - 1) : s[h] # c
         IN  <<SubSeq(s, 1, k - 1)>> \o SplitOn(SubSeq(s, k + 1, Len(s)), c)

----------------------------------------------------------------------------
(* Tag resolver *)

\* TAG_PATTERN.match(tag): anchored at the start by match, at the end by $.
\* \d+ is greedy and never gives a digit back, the next atom being a dot.
TAG_PATTERN(tag) ==
    LET a == DigitRunEnd(tag, 2)
        b == DigitRunEnd(tag, a + 1)
        c == DigitRunEnd(tag, b + 1)
    IN  /\ Len(tag) >= 1 /\ tag[1] = "v"
        /\ a > 2
        /\ a <= Len(tag) /\ tag[a] = "."
        /\ b > a + 1
        /\ b <= Len(tag) /\ tag[b] = "."
        /\ c > b + 1
        /\ c = Len(tag) + 1

\* packaging.version.Version(s) for a dotted release: the release tuple as
\* Some(<<ints>>), or None for InvalidVersion (a component that is not a
\* non-empty run of [0-9]).
Version(s) ==
    LET parts == SplitOn(s, ".")
    IN  IF \A k \in 1..Len(parts) :
               /\ parts[k] # << >>
               /\ \A j \in 1..Len(parts[k]) : parts[k][j] \in AsciiDigits
        THEN Some([k \in 1..Len(parts) |-> ParseInt(parts[k])])
        ELSE None

\* str(Version): the release numbers in decimal joined by dots.
RECURSIVE VersionStr(_)
VersionStr(v) ==
    IF Len(v) = 1 THEN IntToStr(v[1])
    ELSE IntToStr(Head(v)) \o <<".">> \o VersionStr(Tail(v))

\* Variant: versions compared as their text, character by character.
RECURSIVE TextLess(_, _)
TextLess(a, b) ==
    IF b = << >> THEN FALSE
    ELSE IF a = << >> THEN TRUE
    ELSE LET rank(c) == IF c = "." THEN 0 ELSE DigitValue(c) + 1
         IN  IF Head(a) # Head(b) THEN rank(Head(a)) < rank(Head(b))
             ELSE TextLess(Tail(a), Tail(b))

VersionLessAsText(u, v) == TextLess(VersionStr(u), VersionStr(v))

\* Version.__lt__ on release tuples of equal length.
RECURSIVE VersionLess(_, _)
VersionLess(u, v) ==
    IF u = << >> \/ v = << >> THEN FALSE
    ELSE IF Head(u) # Head(v) THEN Head(u) < Head(v)
         ELSE VersionLess(Tail(u), Tail(v))

\* max(matching): the first element no later element exceeds.
RECURSIVE Max(_)
Max(vs) ==
    IF Len(vs) = 1 THEN vs[1]
    ELSE LET m == Max(SubSeq(vs, 1, Len(vs) - 1))
         IN  IF VersionLess(m, vs[Len(vs)]) THEN vs[Len(vs)] ELSE m

\* The tag name the loop body derives from one ref (lines 43-45).
TagOfRef(ref) ==
    LET tag == Replace(ref, REFS_TAGS)
    IN  IF EndsWith(tag, DEREF) THEN SubSeq(tag, 1, Len(tag) - 3) ELSE tag

\* The list `tags` built by the loop over the output lines; a line is the
\* pair <<object id, ref>> that line.split("\t") yields.
RECURSIVE ParseTags(_)
ParseTags(lines) ==
    IF lines = << >> THEN << >>
    ELSE LET tag == TagOfRef(Head(lines)[2])
             v   == IF TAG_PATTERN(tag) THEN Version(LStrip(tag, "v")) ELSE None
         IN  v \o ParseTags(Tail(lines))

MajorOf(v) == v[1]

\* Variant: the filter tested for truth (`not major or ...`), so 0 is no filter.
MatchingTruthy(tags, m) ==
    SelectSeq(tags, LAMBDA t : m = None \/ m[1] = 0 \/ MajorOf(t) = m[1])

\* The comprehension of line 55.
Matching(tags, m) == SelectSeq(tags, LAMBDA t : m = None \/ MajorOf(t) = m[1])

\* Variant: no fall back to all tags when the filter matches none.
get_latest_tag_Strict(output, m) ==
    LET tags == ParseTags(output)
    IN  IF Matching(tags, m) = << >> THEN None
        ELSE Some(<<"v">> \o VersionStr(Max(Matching(tags, m))))

\* get_latest_tag after the remote listing returned `output`.
get_latest_tag(output, m) ==
    LET tags == ParseTags(output)
        matching == IF Matching(tags, m) = << >> THEN tags ELSE Matching(tags, m)
    IN  IF tags = << >> THEN None
        ELSE Some(<<"v">> \o VersionStr(Max(matching)))

----------------------------------------------------------------------------
(* Configuration and the environment's inputs *)

REPOS ==
    << "https://github.com/frappe/erpnext",
       "https://github.com/frappe/hrms",
       "https://github.com/frappe/crm",
       "https://github.com/frappe/helpdesk",
       "https://github.com/frappe/drive",
       "https://github.com/frappe/insights",
       "https://github.com/frappe/builder",
       "https://github.com/frappe/lms" >>

MaxRuns == 2

MaxRefs == 3

Chars(digits) == [k \in 1..Len(digits) |-> DigitChar[digits[k] + 1]]

\* The tag name v<a>.<b>.<c>, each component given by its decimal digits.
TagName(a, b, c) ==
    <<"v">> \o Chars(a) \o <<".">> \o Chars(b) \o <<".">> \o Chars(c)

Line(name) == <<"oid", REFS_TAGS \o name>>

DerefLine(name) == <<"oid", REFS_TAGS \o name \o DEREF>>

\* Tag names a remote may carry: well-formed ones (also with a leading zero
\* and with major 0) and malformed ones of every kind.
T_1_2_3 == TagName(<<1>>, <<2>>, <<3>>)

T_1_10_0 == TagName(<<1>>, <<1, 0>>, <<0>>)

T_2_0_0 == TagName(<<2>>, <<0>>, <<0>>)

T_1_02_4 == TagName(<<1>>, <<0, 2>>, <<4>>)

T_0_9_1 == TagName(<<0>>, <<9>>, <<1>>)

T_PreRelease == TagName(<<3>>, <<0>>, <<0>>) \o <<"-", "r", "c">>

T_TwoParts == <<"v", "4", ".", "1">>

T_NoV == <<"5", ".", "0", ".", "0">>

T_LeadingText == <<"x">> \o TagName(<<6>>, <<0>>, <<0>>)

T_ArabicDigit == <<"v", "7", ".", "0", ".", ArabicThree>>

\* A tag that is itself named refs/tags/v9.9.9 (git tag refs/tags/v9.9.9).
T_Nested == REFS_TAGS \o TagName(<<9>>, <<9>>, <<9>>)

LinePool ==
    { Line(T_1_2_3), Line(T_1_10_0), DerefLine(T_1_10_0), Line(T_2_0_0),
      Line(T_1_02_4), Line(T_0_9_1), Line(T_PreRelease), Line(T_TwoParts),
      Line(T_NoV), Line(T_LeadingText), Line(T_ArabicDigit), Line(T_Nested) }

SeqsUpTo(S, n) == UNION {[1..k -> S] : k \in 0..n}

MajorPool == {None, Some(0), Some(1), Some(2), Some(5)}

\* What the remotes answer during the runs of main.
T_15_2_3 == TagName(<<1, 5>>, <<2>>, <<3>>)

T_15_10_0 == TagName(<<1, 5>>, <<1, 0>>, <<0>>)

T_16_0_0 == TagName(<<1, 6>>, <<0>>, <<0>>)

OutVersions ==
    <<Line(T_15_2_3), Line(T_15_10_0), DerefLine(T_15_10_0), Line(T_16_0_0),
      Line(T_PreRelease)>>

OutMalformed == <<Line(T_PreRelease), Line(T_TwoParts)>>

OutEmpty == << >>

\* The listings the k-th remote may answer with: one with versions and one
\* without, the latter malformed tags only or no tag at all.
OutputPool(k) == {OutVersions, IF k % 2 = 1 THEN OutMalformed ELSE OutEmpty}

Remotes ==
    { f \in [{REPOS[k] : k \in 1..Len(REPOS)} -> {OutVersions, OutMalformed, OutEmpty}] :
          \A k \in 1..Len(REPOS) : f[REPOS[k]] \in OutputPool(k) }

\* Values of FRAPPE_VERSION: unset (getenv's default ""), a branch without
\* a number, a release branch.
EnvPool ==
    { << >>,
      <<"d", "e", "v", "e", "l", "o", "p">>,
      <<"v", "e", "r", "s", "i", "o", "n", "-", "1", "5">> }

StaleFile == Some(<<[git_url |-> REPOS[1], branch |-> <<"d", "e", "v">>]>>)

FilePool == {None, StaleFile}

----------------------------------------------------------------------------
(* main *)

\* re.search(r"(\d+)", env_version) and int(match.group(1)).
EnvMajor(e) ==
    IF \A k \in 1..Len(e) : ~IsReDigit(e[k]) THEN None
    ELSE LET a == CHOOSE j \in 1..Len(e) :
                      IsReDigit(e[j]) /\ \A h \in 1..(j - 1) : ~IsReDigit(e[h])
         IN  Some(ParseInt(SubSeq(e, a, DigitRunEnd(e, a) - 1)))

\* Variant: the tag formatted without the fallback.
BranchNoFallback(tag) == IF tag = None THEN <<"N", "o", "n", "e">> ELSE tag[1]

\* tag or "main"
Branch(tag) == IF tag = None \/ tag = Some(<< >>) THEN MAIN ELSE tag[1]

Entry(repo, tag) == [git_url |-> repo, branch |-> Branch(tag)]

Init ==
    /\ remote \in Remotes
    /\ file \in FilePool
    /\ pc = "idle"
    /\ env = << >>
    /\ major = None
    /\ idx = 1
    /\ apps = << >>
    /\ runs = 0
    /\ fileBefore = file
    /\ log = << >>
    /\ written = << >>
    /\ refsIn = << >>
    /\ majorIn = None
    /\ result = None
    /\ called = FALSE

\* The process starts: main reads FRAPPE_VERSION and sets apps = [].
StartRun ==
    /\ pc \in {"idle", "done", "aborted"}
    /\ runs < MaxRuns
    /\ \E e \in EnvPool :
          /\ env' = e
          /\ major' = EnvMajor(e)
    /\ apps' = << >>
    /\ idx' = 1
    /\ pc' = "loop"
    /\ runs' = runs + 1
    /\ fileBefore' = file
    /\ log' = << >>
    /\ UNCHANGED <<remote, file, written>>
    /\ UNCHANGED tagVars

\* The loop takes the next repo and get_latest_tag spawns git ls-remote;
\* check_output blocks until the child exits.
QueryStart ==
    /\ pc = "loop"
    /\ idx <= Len(REPOS)
    /\ pc' = "query"
    /\ log' = Append(log, <<"start", idx>>)
    /\ UNCHANGED <<remote, file, env, major, idx, apps, runs, fileBefore, written>>
    /\ UNCHANGED tagVars

\* Variant: an entry is appended only when a tag was found.
QueryReturnSkipsUntagged ==
    /\ pc = "query"
    /\ LET tag == get_latest_tag(remote[REPOS[idx]], major)
       IN  apps' = IF tag = None THEN apps ELSE Append(apps, Entry(REPOS[idx], tag))
    /\ idx' = idx + 1
    /\ pc' = "loop"
    /\ log' = Append(log, <<"ok", idx>>)
    /\ UNCHANGED <<remote, file, env, major, runs, fileBefore, written>>
    /\ UNCHANGED tagVars

\* git ls-remote exits 0: get_latest_tag returns and main appends the entry.
QueryReturn ==
    /\ pc = "query"
    /\ apps' = Append(apps, Entry(REPOS[idx], get_latest_tag(remote[REPOS[idx]], major)))
    /\ idx' = idx + 1
    /\ pc' = "loop"
    /\ log' = Append(log, <<"ok", idx>>)
    /\ UNCHANGED <<remote, file, env, major, runs, fileBefore, written>>
    /\ UNCHANGED tagVars

\* Variant: the entries resolved so far are saved before the process exits.
QueryFailSavesPartial ==
    /\ pc = "query"
    /\ pc' = "aborted"
    /\ file' = Some(apps)
    /\ log' = Append(log, <<"fail", idx>>)
    /\ UNCHANGED <<remote, env, major, idx, apps, runs, fileBefore, written>>
    /\ UNCHANGED tagVars

\* Variant: the error is caught, the entry falls back to "main" and the
\* loop goes on.
QueryFailCaught ==
    /\ pc = "query"
    /\ apps' = Append(apps, Entry(REPOS[idx], None))
    /\ idx' = idx + 1
    /\ pc' = "loop"
    /\ log' = Append(log, <<"fail", idx>>)
    /\ UNCHANGED <<remote, file, env, major, runs, fileBefore, written>>
    /\ UNCHANGED tagVars

\* git ls-remote fails: CalledProcessError leaves get_latest_tag and main
\* uncaught and the process exits.
QueryFail ==
    /\ pc = "query"
    /\ pc' = "aborted"
    /\ log' = Append(log, <<"fail", idx>>)
    /\ UNCHANGED <<remote, file, env, major, idx, apps, runs, fileBefore, written>>
    /\ UNCHANGED tagVars

\* Variant: the new entries are added to the entries already in the file.
WriteMerging ==
    /\ pc = "loop"
    /\ idx > Len(REPOS)
    /\ file' = IF file = None THEN Some(apps) ELSE Some(file[1] \o apps)
    /\ pc' = "done"
    /\ log' = Append(log, <<"write", 0>>)
    /\ written' = Append(written, <<major, file, file'>>)
    /\ UNCHANGED <<remote, env, major, idx, apps, runs, fileBefore>>
    /\ UNCHANGED tagVars

\* After the loop: apps.json is overwritten with the serialized list.
Write ==
    /\ pc = "loop"
    /\ idx > Len(REPOS)
    /\ file' = Some(apps)
    /\ pc' = "done"
    /\ log' = Append(log, <<"write", 0>>)
    /\ written' = Append(written, <<major, file, file'>>)
    /\ UNCHANGED <<remote, env, major, idx, apps, runs, fileBefore>>
    /\ UNCHANGED tagVars

Next == StartRun \/ QueryStart \/ QueryReturn \/ QueryFail \/ Write

Spec == Init /\ [][Next]_vars

----------------------------------------------------------------------------
(* The resolver on its own: any listing, any filter *)

InitTag ==
    /\ refsIn \in SeqsUpTo(LinePool, MaxRefs)
    /\ majorIn \in MajorPool
    /\ result = None
    /\ called = FALSE
    /\ remote = [r \in {REPOS[k] : k \in 1..Len(REPOS)} |-> << >>]
    /\ file = None
    /\ pc = "idle"
    /\ env = << >>
    /\ major = None
    /\ idx = 1
    /\ apps = << >>
    /\ runs = 0
    /\ fileBefore = None
    /\ log = << >>
    /\ written = << >>

Resolve ==
    /\ ~called
    /\ result' = get_latest_tag(refsIn, majorIn)
    /\ called' = TRUE
    /\ UNCHANGED <<refsIn, majorIn>>
    /\ UNCHANGED mainVars

NextTag == Resolve

SpecTag == InitTag /\ [][NextTag]_vars

----------------------------------------------------------------------------
(* Vocabulary of the properties, stated without the resolver's own steps *)

IsDigits(s) == s # << >> /\ \A j \in 1..Len(s) : s[j] \in AsciiDigits

\* n is exactly v<digits>.<digits>.<digits>
IsSemverName(n) ==
    /\ n # << >>
    /\ Head(n) = "v"
    /\ LET p == SplitOn(Tail(n), ".")
       IN  Len(p) = 3 /\ \A k \in 1..3 : IsDigits(p[k])

NameVersion(n) ==
    LET p == SplitOn(Tail(n), ".")
    IN  <<ParseInt(p[1]), ParseInt(p[2]), ParseInt(p[3])>>

\* The tag names of a listing, as the resolver reads them off the refs.
ListedNames(output) == {TagOfRef(output[k][2]) : k \in 1..Len(output)}

ValidNames(output) == {n \in ListedNames(output) : IsSemverName(n)}

ValidVersions(output) == {NameVersion(n) : n \in ValidNames(output)}

NumLess(u, v) ==
    \/ u[1] < v[1]
    \/ u[1] = v[1] /\ u[2] < v[2]
    \/ u[1] = v[1] /\ u[2] = v[2] /\ u[3] < v[3]

IsNumericMax(r, S) == r \in S /\ \A t \in S : ~NumLess(r, t)

\* The returned string names version r.
Returns(res, r) ==
    /\ res # None
    /\ IsSemverName(res[1])
    /\ NameVersion(res[1]) = r

WithMajor(S, m) == {t \in S : t[1] = m}

----------------------------------------------------------------------------
(* Properties of the resolver, under SpecTag *)

\* C1: with no major filter and at least one valid tag, get_latest_tag
\* returns the version that is the maximum of the valid tags under numeric
\* comparison of major, then minor, then patch; for {v1.2.3, v1.10.0,
\* v2.0.0} it returns v2.0.0 and for {v1.2.3, v1.10.0} it returns v1.10.0.
C1_NumericMaximum ==
    (called /\ majorIn = None /\ ValidVersions(refsIn) # {}) =>
        /\ \E r \in ValidVersions(refsIn) :
              IsNumericMax(r, ValidVersions(refsIn)) /\ Returns(result, r)
        /\ ListedNames(refsIn) = {T_1_2_3, T_1_10_0, T_2_0_0} => result = Some(T_2_0_0)
        /\ ListedNames(refsIn) = {T_1_2_3, T_1_10_0} => result = Some(T_1_10_0)

C1_Witness ==
    /\ called
    /\ majorIn = None
    /\ refsIn = <<Line(T_1_10_0), Line(T_2_0_0), Line(T_1_2_3)>>
    /\ result = Some(T_2_0_0)

\* C2: with a major filter m (m = 0 included) and at least one valid tag of
\* major m, get_latest_tag returns a version of major m, the numeric
\* maximum of the valid tags of major m, even when valid tags of a larger
\* major are listed.
C2_MajorFilter ==
    (called /\ majorIn # None /\ WithMajor(ValidVersions(refsIn), majorIn[1]) # {}) =>
        \E r \in WithMajor(ValidVersions(refsIn), majorIn[1]) :
            /\ IsNumericMax(r, WithMajor(ValidVersions(refsIn), majorIn[1]))
            /\ Returns(result, r)

C2_Witness ==
    /\ called
    /\ majorIn = Some(0)
    /\ refsIn = <<Line(T_2_0_0), Line(T_0_9_1), Line(T_1_2_3)>>
    /\ result = Some(T_0_9_1)

\* C3: with a major filter m that no valid tag has, and at least one valid
\* tag, get_latest_tag does not return None: it returns the numeric maximum
\* of all valid tags, which is what it returns with no filter.
C3_AdvisoryFilter ==
    (/\ called
     /\ majorIn # None
     /\ ValidVersions(refsIn) # {}
     /\ WithMajor(ValidVersions(refsIn), majorIn[1]) = {}) =>
        /\ \E r \in ValidVersions(refsIn) :
              IsNumericMax(r, ValidVersions(refsIn)) /\ Returns(result, r)
        /\ result = get_latest_tag(refsIn, None)

C3_Witness ==
    /\ called
    /\ majorIn = Some(5)
    /\ refsIn = <<Line(T_1_2_3), DerefLine(T_1_10_0), Line(T_2_0_0)>>
    /\ result = Some(T_2_0_0)

\* The tag name of a ref: the ref without its refs/tags/ prefix and without
\* a trailing ^{}.
NameOfRef(ref) ==
    LET n == IF StartsWith(ref, REFS_TAGS)
             THEN SubSeq(ref, Len(REFS_TAGS) + 1, Len(ref)) ELSE ref
    IN  IF EndsWith(n, DEREF) THEN SubSeq(n, 1, Len(n) - Len(DEREF)) ELSE n

ExactRefsOnly(output) == SelectSeq(output, LAMBDA l : IsSemverName(NameOfRef(l[2])))

\* C8: a ref whose tag name is not exactly v<digits>.<digits>.<digits> never
\* becomes a candidate: get_latest_tag returns the same with such refs
\* removed from the listing.
C8_InexactNamesIgnored ==
    called => result = get_latest_tag(ExactRefsOnly(refsIn), majorIn)

\* C10: the branch for a listing is "main" or character for character one
\* of the tag names listed, leading zeros included.
C10_BranchIsListedName ==
    called => (Branch(result) = MAIN \/ Branch(result) \in ListedNames(refsIn))

----------------------------------------------------------------------------
(* Properties of main, under Spec *)

HasNoValidTag(repo) == ValidNames(remote[repo]) = {}

\* C4: for a repository whose listing is empty or has no tag of the accepted
\* form, get_latest_tag returns None under every major filter and the
\* entry's branch is "main"; an entry's branch is "main" only for such a
\* repository.
C4_MainOnlyWithoutTags ==
    /\ (pc = "query" /\ HasNoValidTag(REPOS[idx])) =>
          \A m \in MajorPool : get_latest_tag(remote[REPOS[idx]], m) = None
    /\ \A k \in 1..Len(apps) :
          apps[k].branch = MAIN <=> HasNoValidTag(apps[k].git_url)
    /\ pc = "done" =>
          \A k \in 1..Len(file[1]) :
              file[1][k].branch = MAIN <=> HasNoValidTag(file[1][k].git_url)

C4_Witness ==
    /\ pc = "done"
    /\ remote[REPOS[1]] = OutMalformed
    /\ remote[REPOS[2]] = OutEmpty
    /\ remote[REPOS[3]] = OutVersions
    /\ file[1][1].branch = MAIN
    /\ file[1][2].branch = MAIN
    /\ file[1][3].branch = T_16_0_0

\* C5: when a remote listing fails, the run ends with apps.json holding what
\* it held when the run started; the entries resolved before the failure
\* are not written.
C5_AbortWritesNothing ==
    pc = "aborted" => (file = fileBefore /\ (Len(apps) < Len(REPOS) => file # Some(apps)))

C5_Witness ==
    /\ pc = "aborted"
    /\ Len(apps) = 3
    /\ fileBefore = StaleFile
    /\ file = StaleFile

\* C6: a written manifest has one entry per configured repository, the
\* k-th entry's git_url being the k-th element of REPOS.
C6_OneEntryPerRepoInOrder ==
    pc = "done" =>
        /\ file # None
        /\ Len(file[1]) = Len(REPOS)
        /\ \A k \in 1..Len(REPOS) : file[1][k].git_url = REPOS[k]

C6_Witness ==
    /\ pc = "done"
    /\ Len(file[1]) = 8
    /\ file[1][1].branch = T_15_10_0
    /\ file[1][7].branch = MAIN
    /\ file[1][8].git_url = "https://github.com/frappe/lms"

\* C7: two completed runs with the same major filter, the remotes being the
\* same, write the same manifest whatever apps.json held before each.
C7_SameInputsSameManifest ==
    \A a, b \in 1..Len(written) :
        written[a][1] = written[b][1] => written[a][3] = written[b][3]

C7_Witness ==
    /\ Len(written) = 2
    /\ written[1][1] = written[2][1]
    /\ written[1][2] = StaleFile
    /\ written[2][2] # StaleFile
    /\ written[1][3] = written[2][3]
    /\ file = written[2][3]

\* C9: the remotes are queried at most once each, in configuration order,
\* each query starting only after the previous one returned successfully;
\* nothing is queried after a failed query; apps.json is written only after
\* every query has succeeded.
C9_SequentialQueries ==
    /\ \A j \in 1..Len(log) :
          /\ log[j][1] = "start" =>
                \/ j = 1 /\ log[j][2] = 1
                \/ j > 1 /\ log[j - 1] = <<"ok", log[j][2] - 1>>
          /\ log[j][1] \in {"ok", "fail"} =>
                j > 1 /\ log[j - 1] = <<"start", log[j][2]>>
          /\ log[j][1] = "fail" => j = Len(log)
          /\ log[j][1] = "write" =>
                /\ j = Len(log)
                /\ \A k \in 1..Len(REPOS) : \E h \in 1..(j - 1) : log[h] = <<"ok", k>>
                /\ \A h \in 1..(j - 1) : log[h][1] # "fail"
    /\ \A j, h \in 1..Len(log) :
          (j # h /\ log[j][1] = "start" /\ log[h][1] = "start") => log[j][2] # log[h][2]
    /\ \A j \in 1..Len(log) : log[j][1] = "start" => log[j][2] \in 1..Len(REPOS)

C9_Witness ==
    /\ pc = "aborted"
    /\ log = << <<"start", 1>>, <<"ok", 1>>, <<"start", 2>>, <<"ok", 2>>,
                <<"start", 3>>, <<"fail", 3>> >>

====
